---- MODULE Spec2Model ----
(***************************************************************************)
(* Model of src/lib/detect-testing-library-utils.ts: the enhanced rule     *)
(* `create` returned by detectTestingLibraryUtils.  One enhanced rule      *)
(* instance is created per file (Init); the host traversal engine then     *)
(* delivers node visits to the merged listener table (Visit).              *)
(***************************************************************************)
EXTENDS Integers, Sequences, FiniteSets, TLC

VARIABLES
  settings,                    \* context.settings (read-only per file)
  fileName,                    \* context.getFilename()
  ruleInstructions,            \* keys of the listener table returned by ruleCreate
  enhancedRuleInstructions,    \* keys of the merged listener table returned
  importedTestingLibraryNode,  \* targetLib slot
  importedCustomModuleNode,    \* customModule slot
  visited,                     \* number of nodes delivered so far
  lastCall,                    \* what the last merged-callback call did
  ruleLog,                     \* positions of the nodes the rule's callbacks saw
  found,                       \* result of the last findImportedUtilSpecifier call
  ascent,                      \* a parent chain and the result of the last ascent
  instances,                   \* the closures of two enhanced rule instances
  naming                       \* state of the render-result-naming-convention rule

vars == <<settings, fileName, ruleInstructions, enhancedRuleInstructions,
          importedTestingLibraryNode, importedCustomModuleNode,
          visited, lastCall, ruleLog, found, ascent, instances, naming>>

\* the parts of the state that belong to the other state machines
resolverVars == <<found>>
ascentVars == <<ascent>>
instanceVars == <<instances>>
namingVars == <<naming>>

----------------------------------------------------------------------------
(* Bounds *)

MaxVisits == 3

----------------------------------------------------------------------------
(* JavaScript values *)

\* an absent setting / a missing return value; Some(v) is a present value
Undefined == <<>>
Some(v) == <<v>>

\* the empty slot
Null == [type |-> "null"]

\* truthiness of an optional string (undefined and '' are falsy)
Truthy(opt) == opt # Undefined /\ opt[1] # ""

\* ToString (ECMAScript) of an optional string argument
JsToString(opt) == IF opt = Undefined THEN "undefined" ELSE opt[1]

\* s.includes(sub): a case-sensitive substring search
Includes(s, sub) ==
  \E i \in 1..(Len(s) - Len(sub) + 1) : SubSeq(s, i, i + Len(sub) - 1) = sub

\* /testing-library/g.test(value): the literal is evaluated afresh at every
\* call, so lastIndex is 0 and the test is a substring search for the marker.
TestingLibraryRegExpTest(value) == Includes(value, "testing-library")

\* String.prototype.endsWith(searchString): the argument is converted with
\* JsToString, so an undefined argument searches for the text "undefined".
endsWith(s, searchString) ==
  LET search == JsToString(searchString)
  IN  /\ Len(search) <= Len(s)
      /\ SubSeq(s, Len(s) - Len(search) + 1, Len(s)) = search

DEFAULT_FILENAME_PATTERN == "^.*\\.(test|spec)\\.[jt]sx?$"

\* fileName.match(pattern) for the patterns of the model: the default is
\* anchored at the end of the name, a plain word is searched anywhere.
StringMatch(name, pattern) ==
  IF pattern = DEFAULT_FILENAME_PATTERN
  THEN \E word \in {"test", "spec"}, lang \in {"j", "t"}, x \in {"", "x"} :
         endsWith(name, Some("." \o word \o "." \o lang \o "s" \o x))
  ELSE Includes(name, pattern)

----------------------------------------------------------------------------
(* Syntax-tree nodes *)

RequireSelector == "CallExpression > Identifier[name=\"require\"]"

\* module sources: marker only, custom-module suffix only, both, the custom
\* name not at the end, the text "undefined" at the end, neither
ModuleSources ==
  {"@testing-library/react", "../test/my-utils", "@testing-library/my-utils",
   "my-utils/setup", "./undefined", "lodash"}

ImportDeclarationNode(p, src) ==
  [type |-> "ImportDeclaration", pos |-> p, source |-> [value |-> src]]

StringLiteral(s) == [type |-> "Literal", valueType |-> "string", value |-> s]
NumberLiteral == [type |-> "Literal", valueType |-> "number", value |-> "42"]
IdentifierArg == [type |-> "Identifier", valueType |-> "none", value |-> "path"]

RequireArguments ==
  {<<NumberLiteral>>,
   <<StringLiteral("@testing-library/dom")>>,
   <<IdentifierArg, StringLiteral("../test/my-utils")>>,
   <<StringLiteral("lodash"), StringLiteral("@testing-library/my-utils")>>}

CallExpressionNode(p, args) ==
  [type |-> "CallExpression", pos |-> p, arguments |-> args]

\* the node the require selector delivers: the identifier, child of the call
RequireIdentifierNode(p, args) ==
  [type |-> "Identifier", name |-> "require",
   parent |-> CallExpressionNode(p, args)]

\* the nodes the traversal engine can deliver to a listener key
NodesFor(key, p) ==
  CASE key = "ImportDeclaration" ->
         {ImportDeclarationNode(p, s) : s \in ModuleSources}
    [] key = RequireSelector ->
         {RequireIdentifierNode(p, a) : a \in RequireArguments}
    [] OTHER -> {CallExpressionNode(p, <<>>)}

isLiteral(node) == node.type = "Literal"

----------------------------------------------------------------------------
(* Settings *)

customModule == settings.module

filenamePattern ==
  IF settings.filenamePattern # Undefined
  THEN settings.filenamePattern[1]
  ELSE DEFAULT_FILENAME_PATTERN

----------------------------------------------------------------------------
(* Helpers; the slots are passed as a record [lib, custom] *)

Slots == [lib |-> importedTestingLibraryNode, custom |-> importedCustomModuleNode]

\* variant: no optimistic default when the setting is absent
getIsTestingLibraryImported_NoDefault(s) ==
  s.lib # Null \/ s.custom # Null

\* variant: only the custom module import counts
getIsTestingLibraryImported_CustomOnly(s) ==
  IF ~Truthy(customModule)
  THEN TRUE
  ELSE s.custom # Null

getIsTestingLibraryImported(s) ==
  IF ~Truthy(customModule)
  THEN TRUE
  ELSE s.lib # Null \/ s.custom # Null

getIsValidFilename == StringMatch(fileName, filenamePattern)

\* variant: the filename is not part of the decision
canReportErrors_AnyFilename(s) == getIsTestingLibraryImported(s)

\* variant: the decision hoisted to construction time, when both slots are empty
canReportErrors_Cached(s) ==
  getIsTestingLibraryImported([lib |-> Null, custom |-> Null]) /\ getIsValidFilename

canReportErrors(s) == getIsTestingLibraryImported(s) /\ getIsValidFilename

----------------------------------------------------------------------------
(* Detection instructions *)

DetectionKeys == {"ImportDeclaration", RequireSelector}

\* variant: the last matching declaration wins
DetectImportDeclaration_Overwrite(s, node) ==
  LET lib == IF TestingLibraryRegExpTest(node.source.value)
             THEN node ELSE s.lib
      custom == IF endsWith(node.source.value, customModule)
                THEN node ELSE s.custom
  IN  [lib |-> lib, custom |-> custom]

\* variant: each slot follows the latest declaration, matching or not
DetectImportDeclaration_Latest(s, node) ==
  LET lib == IF TestingLibraryRegExpTest(node.source.value)
             THEN node ELSE Null
      custom == IF endsWith(node.source.value, customModule)
                THEN node ELSE Null
  IN  [lib |-> lib, custom |-> custom]

\* variant: the custom module check only runs when the marker check failed
DetectImportDeclaration_ElseIf(s, node) ==
  IF s.lib = Null /\ TestingLibraryRegExpTest(node.source.value)
  THEN [lib |-> node, custom |-> s.custom]
  ELSE IF s.custom = Null /\ endsWith(node.source.value, customModule)
       THEN [lib |-> s.lib, custom |-> node]
       ELSE s

DetectImportDeclaration(s, node) ==
  LET lib == IF s.lib = Null /\ TestingLibraryRegExpTest(node.source.value)
             THEN node ELSE s.lib
      custom == IF s.custom = Null /\ endsWith(node.source.value, customModule)
                THEN node ELSE s.custom
  IN  [lib |-> lib, custom |-> custom]

\* variant: the require identifier is recorded instead of the call expression
DetectRequire_RecordsIdentifier(s, node) ==
  LET args == node.parent.arguments
      lib == IF /\ s.lib = Null
                /\ \E i \in DOMAIN args :
                     /\ isLiteral(args[i])
                     /\ args[i].valueType = "string"
                     /\ TestingLibraryRegExpTest(args[i].value)
             THEN node ELSE s.lib
      custom == IF /\ s.custom = Null
                   /\ \E i \in DOMAIN args :
                        /\ isLiteral(args[i])
                        /\ args[i].valueType = "string"
                        /\ endsWith(args[i].value, customModule)
                THEN node ELSE s.custom
  IN  [lib |-> lib, custom |-> custom]

DetectRequire(s, node) ==
  LET callExpression == node.parent
      args == callExpression.arguments
      lib == IF /\ s.lib = Null
                /\ \E i \in DOMAIN args :
                     /\ isLiteral(args[i])
                     /\ args[i].valueType = "string"
                     /\ TestingLibraryRegExpTest(args[i].value)
             THEN callExpression ELSE s.lib
      custom == IF /\ s.custom = Null
                   /\ \E i \in DOMAIN args :
                        /\ isLiteral(args[i])
                        /\ args[i].valueType = "string"
                        /\ endsWith(args[i].value, customModule)
                THEN callExpression ELSE s.custom
  IN  [lib |-> lib, custom |-> custom]

detectionInstructions(key, s, node) ==
  IF key = "ImportDeclaration"
  THEN DetectImportDeclaration(s, node)
  ELSE DetectRequire(s, node)

----------------------------------------------------------------------------
(* The rule: its callbacks report the node and return a result *)

RuleKeys == {"ImportDeclaration", RequireSelector, "CallExpression"}

\* the listener tables of the rules of the model, by their keys
RuleTables ==
  {{}, {"CallExpression"}, {"ImportDeclaration", "CallExpression"}, RuleKeys}

RuleResult(key, node) == Some([rule |-> key, node |-> node])

----------------------------------------------------------------------------
(* The merged listener table *)

\* variant: only the rule's own keys are overridden
allKeys_RuleOnly(rule) == rule

allKeys(rule) == DetectionKeys \cup rule

\* variant: the gate is read before the detection callback runs
MergedCallback_GateFirst(instruction, s, node) ==
  LET detected == instruction \in DetectionKeys
      gate == canReportErrors(s)
      after == IF detected THEN detectionInstructions(instruction, s, node) ELSE s
      runRule == gate /\ instruction \in ruleInstructions
  IN  [slots |-> after,
       events |-> <<"canReportErrors">>
                  \o (IF detected THEN <<"detection">> ELSE <<>>)
                  \o (IF runRule THEN <<"rule">> ELSE <<>>),
       gate |-> gate,
       returned |-> IF runRule THEN RuleResult(instruction, node) ELSE Undefined]

\* variant: the rule callback runs whatever the gate says
MergedCallback_Ungated(instruction, s, node) ==
  LET detected == instruction \in DetectionKeys
      after == IF detected THEN detectionInstructions(instruction, s, node) ELSE s
      gate == canReportErrors(after)
      runRule == instruction \in ruleInstructions
  IN  [slots |-> after,
       events |-> (IF detected THEN <<"detection">> ELSE <<>>)
                  \o <<"canReportErrors">>
                  \o (IF runRule THEN <<"rule">> ELSE <<>>),
       gate |-> gate,
       returned |-> IF runRule THEN RuleResult(instruction, node) ELSE Undefined]

\* enhancedRuleInstructions[instruction](node), from slots s: the slots it
\* leaves, the calls it made in order, the gate it read and what it returned
MergedCallback(instruction, s, node) ==
  LET detected == instruction \in DetectionKeys
      after == IF detected THEN detectionInstructions(instruction, s, node) ELSE s
      gate == canReportErrors(after)
      runRule == gate /\ instruction \in ruleInstructions
  IN  [slots |-> after,
       events |-> (IF detected THEN <<"detection">> ELSE <<>>)
                  \o <<"canReportErrors">>
                  \o (IF runRule THEN <<"rule">> ELSE <<>>),
       gate |-> gate,
       returned |-> IF runRule THEN RuleResult(instruction, node) ELSE Undefined]

----------------------------------------------------------------------------
(* State machine *)

NoCall == [instruction |-> "", node |-> Null, before |-> [lib |-> Null, custom |-> Null],
           events |-> <<>>, gate |-> FALSE, returned |-> Undefined]

\* values of the parts of the state a state machine does not use
NotCalled == [type |-> "not called"]
NoAscent == [chain |-> <<>>, closest |-> <<>>]
NoInstances == <<>>
NoRule == [type |-> "no rule"]

ModuleSettings == {Undefined, Some(""), Some("my-utils")}
PatternSettings == {Undefined, Some("component")}
FileNames == {"component.test.tsx", "component.tsx"}

Init ==
  /\ settings \in [module : ModuleSettings, filenamePattern : PatternSettings]
  /\ fileName \in FileNames
  /\ ruleInstructions \in RuleTables
  /\ enhancedRuleInstructions = allKeys(ruleInstructions)
  /\ importedTestingLibraryNode = Null
  /\ importedCustomModuleNode = Null
  /\ visited = 0
  /\ lastCall = NoCall
  /\ ruleLog = <<>>
  /\ found = NotCalled
  /\ ascent = NoAscent
  /\ instances = NoInstances
  /\ naming = NoRule

\* the traversal engine visits the next node and calls the merged callback
Visit(instruction, node) ==
  /\ visited < MaxVisits
  /\ instruction \in enhancedRuleInstructions
  /\ LET r == MergedCallback(instruction, Slots, node)
     IN  /\ importedTestingLibraryNode' = r.slots.lib
         /\ importedCustomModuleNode' = r.slots.custom
         /\ lastCall' = [instruction |-> instruction, node |-> node,
                         before |-> Slots, events |-> r.events,
                         gate |-> r.gate, returned |-> r.returned]
         /\ ruleLog' = IF r.returned # Undefined
                       THEN Append(ruleLog, visited + 1) ELSE ruleLog
  /\ visited' = visited + 1
  /\ UNCHANGED <<settings, fileName, ruleInstructions, enhancedRuleInstructions>>
  /\ UNCHANGED <<resolverVars, ascentVars, instanceVars, namingVars>>

Next ==
  \E instruction \in DetectionKeys \cup RuleKeys :
    \E node \in NodesFor(instruction, visited + 1) :
      Visit(instruction, node)

Spec == Init /\ [][Next]_vars

----------------------------------------------------------------------------
(* Specifier resolution: nodes with specifiers and parents *)

MaxImports == 2

Identifier(n, at) == [type |-> "Identifier", name |-> n, range |-> at]

ImportSpecifier(importedName, localName) ==
  [type |-> "ImportSpecifier",
   imported |-> Identifier(importedName, 1), local |-> Identifier(localName, 2)]

ImportNamespaceSpecifier(localName) ==
  [type |-> "ImportNamespaceSpecifier", local |-> Identifier(localName, 1)]

ImportDefaultSpecifier(localName) ==
  [type |-> "ImportDefaultSpecifier", local |-> Identifier(localName, 0)]

\* import { render as doRender } / import { screen } /
\* import React, * as rtl / import React
SpecifierLists ==
  {<<ImportSpecifier("render", "doRender")>>,
   <<ImportSpecifier("screen", "screen")>>,
   <<ImportDefaultSpecifier("React"), ImportNamespaceSpecifier("rtl")>>,
   <<ImportDefaultSpecifier("React")>>}

ImportDeclarationWith(p, src, specifiers) ==
  [type |-> "ImportDeclaration", pos |-> p, source |-> [value |-> src],
   specifiers |-> specifiers]

Property(keyName, valueName) ==
  [type |-> "Property",
   key |-> Identifier(keyName, 1), value |-> Identifier(valueName, 2)]

RestElement(n) == [type |-> "RestElement", argument |-> Identifier(n, 1)]

ObjectPattern(properties) == [type |-> "ObjectPattern", properties |-> properties]

VariableDeclarator(id) == [type |-> "VariableDeclarator", id |-> id]

ExpressionStatement == [type |-> "ExpressionStatement"]

\* const rtl = require(..) / const { render: r } = require(..) /
\* const { screen, ...rest } = require(..) / const {} = require(..) /
\* require(..) as a statement of its own
RequireParents ==
  {VariableDeclarator(Identifier("rtl", 0)),
   VariableDeclarator(ObjectPattern(<<Property("render", "r")>>)),
   VariableDeclarator(ObjectPattern(<<Property("screen", "screen"), RestElement("rest")>>)),
   VariableDeclarator(ObjectPattern(<<>>)),
   ExpressionStatement}

ResolverSources == {"@testing-library/react", "../test/my-utils"}

RequireCallWith(p, args, parent) ==
  [type |-> "CallExpression", pos |-> p, arguments |-> args, parent |-> parent]

\* the import and require nodes of a file, as the traversal engine delivers them
ResolverNodesFor(key, p) ==
  IF key = "ImportDeclaration"
  THEN {ImportDeclarationWith(p, src, l) : src \in ResolverSources, l \in SpecifierLists}
  ELSE {[type |-> "Identifier", name |-> "require",
         parent |-> RequireCallWith(p, <<StringLiteral(src)>>, parent)] :
          src \in ResolverSources, parent \in RequireParents}

SpecifierNames == {"render", "screen", "fireEvent"}

----------------------------------------------------------------------------
(* helpers.findImportedUtilSpecifier *)

\* a thrown TypeError (a property read on undefined)
TypeError == [type |-> "TypeError"]

\* obj.field, undefined when the object has no such property
Get(obj, field) == IF field \in DOMAIN obj THEN obj[field] ELSE Undefined

isImportDeclaration(node) == node # Undefined /\ node.type = "ImportDeclaration"
isImportSpecifier(node) == node # Undefined /\ node.type = "ImportSpecifier"
isImportNamespaceSpecifier(node) ==
  node # Undefined /\ node.type = "ImportNamespaceSpecifier"
isIdentifier(node) == node # Undefined /\ node.type = "Identifier"
isProperty(node) == node # Undefined /\ node.type = "Property"

\* Array.prototype.find: the first element that satisfies the test, or
\* undefined; hits are the positions of the elements that satisfy it
Find(seq, hits) ==
  IF hits = {}
  THEN Undefined
  ELSE seq[CHOOSE i \in hits : \A j \in hits : i <= j]

\* variant: the Testing Library import is preferred to the custom module import
SelectImportNode_LibFirst(s) ==
  IF s.lib # Null THEN s.lib ELSE s.custom

\* getCustomModuleImportNode() ?? getTestingLibraryImportNode()
SelectImportNode(s) ==
  IF s.custom # Null THEN s.custom ELSE s.lib

\* variant: the specifier is looked up by its local name
ResolveInDeclaration_ByLocal(node, specifierName) ==
  LET IsNamed(n) == isImportSpecifier(n) /\ n.local.name = specifierName
      namedExport == Find(node.specifiers, {i \in DOMAIN node.specifiers : IsNamed(node.specifiers[i])})
  IN  IF namedExport # Undefined
      THEN namedExport
      ELSE Find(node.specifiers, {i \in DOMAIN node.specifiers : isImportNamespaceSpecifier(node.specifiers[i])})

ResolveInDeclaration(node, specifierName) ==
  LET IsNamed(n) == isImportSpecifier(n) /\ n.imported.name = specifierName
      namedExport == Find(node.specifiers, {i \in DOMAIN node.specifiers : IsNamed(node.specifiers[i])})
  IN  IF namedExport # Undefined
      THEN namedExport
      ELSE Find(node.specifiers, {i \in DOMAIN node.specifiers : isImportNamespaceSpecifier(node.specifiers[i])})

\* variant: the local alias of the destructured property is returned
ResolveInRequire_Alias(node, specifierName) ==
  LET requireNode == node.parent
      id == Get(requireNode, "id")
      IsKey(n) == isProperty(n) /\ isIdentifier(n.key) /\ n.key.name = specifierName
  IN  IF isIdentifier(id)
      THEN id
      ELSE IF id = Undefined
      THEN TypeError
      ELSE LET property == Find(id.properties, {i \in DOMAIN id.properties : IsKey(id.properties[i])})
           IN  IF property = Undefined THEN TypeError ELSE property.value

ResolveInRequire(node, specifierName) ==
  LET requireNode == node.parent
      id == Get(requireNode, "id")
      IsKey(n) == isProperty(n) /\ isIdentifier(n.key) /\ n.key.name = specifierName
  IN  IF isIdentifier(id)
      THEN id
      ELSE IF id = Undefined
      THEN TypeError    \* destructuring.properties, destructuring undefined
      ELSE LET property == Find(id.properties, {i \in DOMAIN id.properties : IsKey(id.properties[i])})
           IN  IF property = Undefined
               THEN TypeError    \* property.key, property undefined
               ELSE property.key

\* the import node inspected and what the call returns (or throws)
findImportedUtilSpecifier(s, specifierName) ==
  LET node == SelectImportNode(s)
  IN  [node |-> node,
       result |-> IF node = Null
                  THEN Null
                  ELSE IF isImportDeclaration(node)
                  THEN ResolveInDeclaration(node, specifierName)
                  ELSE ResolveInRequire(node, specifierName)]

----------------------------------------------------------------------------
(* State machine of one file whose rule resolves specifiers *)

InitResolver ==
  /\ settings \in [module : {Undefined, Some("my-utils")},
                   filenamePattern : {Undefined}]
  /\ fileName = "component.test.tsx"
  /\ ruleInstructions = {}
  /\ enhancedRuleInstructions = allKeys(ruleInstructions)
  /\ importedTestingLibraryNode = Null
  /\ importedCustomModuleNode = Null
  /\ visited = 0
  /\ lastCall = NoCall
  /\ ruleLog = <<>>
  /\ found = NotCalled
  /\ ascent = NoAscent
  /\ instances = NoInstances
  /\ naming = NoRule

\* the traversal engine delivers the next import or require node
VisitImport(instruction, node) ==
  /\ visited < MaxImports
  /\ Visit(instruction, node)

\* the rule calls helpers.findImportedUtilSpecifier(specifierName)
FindImportedUtilSpecifier(specifierName) ==
  /\ LET r == findImportedUtilSpecifier(Slots, specifierName)
     IN  found' = [type |-> "called", specifierName |-> specifierName,
                   slots |-> Slots, node |-> r.node, result |-> r.result]
  /\ UNCHANGED <<settings, fileName, ruleInstructions, enhancedRuleInstructions,
                 importedTestingLibraryNode, importedCustomModuleNode,
                 visited, lastCall, ruleLog>>
  /\ UNCHANGED <<ascentVars, instanceVars, namingVars>>

NextResolver ==
  \/ \E instruction \in DetectionKeys :
       \E node \in ResolverNodesFor(instruction, visited + 1) :
         VisitImport(instruction, node)
  \/ \E specifierName \in SpecifierNames :
       FindImportedUtilSpecifier(specifierName)

SpecResolver == InitResolver /\ [][NextResolver]_vars

----------------------------------------------------------------------------
(* Two files: two calls of the function detectTestingLibraryUtils returns *)

MaxInstanceVisits == 2

InstanceIds == {1, 2}

EmptySlots == [lib |-> Null, custom |-> Null]

\* variant: one pair of slots at module level, shared by every call
ClosureOf_Shared(i) == 1

\* the slots are locals of the returned function: one pair per call
ClosureOf(i) == i

SlotsOf(i) == instances.closures[ClosureOf(i)]

Created == DOMAIN instances.files

\* helpers.canReportErrors() of instance i
canReportErrorsOf(i) ==
  /\ getIsTestingLibraryImported(SlotsOf(i))
  /\ StringMatch(instances.files[i], filenamePattern)

\* what the rule of instance i can observe through its helpers
ViewOf(i) ==
  [slots |-> SlotsOf(i),
   gate |-> canReportErrorsOf(i),
   importNode |-> SelectImportNode(SlotsOf(i))]

Views == [i \in Created |-> ViewOf(i)]

InitInstances ==
  /\ settings \in [module : {Undefined, Some("my-utils")},
                   filenamePattern : {Undefined}]
  /\ fileName = ""
  /\ ruleInstructions = {}
  /\ enhancedRuleInstructions = allKeys(ruleInstructions)
  /\ importedTestingLibraryNode = Null
  /\ importedCustomModuleNode = Null
  /\ visited = 0
  /\ lastCall = NoCall
  /\ ruleLog = <<>>
  /\ found = NotCalled
  /\ ascent = NoAscent
  /\ naming = NoRule
  /\ instances = [files |-> <<>>, closures |-> <<>>, steps |-> 0,
                  last |-> [op |-> "none", id |-> 0, before |-> <<>>]]

\* the enhanced create is called for a file: lines 64-71 run
CreateInstance(i, name) ==
  /\ i \notin Created
  /\ instances' =
       [files |-> [j \in Created \cup {i} |->
                     IF j = i THEN name ELSE instances.files[j]],
        closures |-> [c \in DOMAIN instances.closures \cup {ClosureOf(i)} |->
                        IF c = ClosureOf(i) THEN EmptySlots
                        ELSE instances.closures[c]],
        steps |-> instances.steps,
        last |-> [op |-> "create", id |-> i, before |-> Views]]
  /\ UNCHANGED <<settings, fileName, ruleInstructions, enhancedRuleInstructions,
                 importedTestingLibraryNode, importedCustomModuleNode,
                 visited, lastCall, ruleLog>>
  /\ UNCHANGED <<resolverVars, ascentVars, namingVars>>

\* the traversal of file i delivers a node to a merged callback of instance i
VisitInstance(i, instruction, node) ==
  /\ i \in Created
  /\ instances.steps < MaxInstanceVisits
  /\ instances' =
       [files |-> instances.files,
        closures |-> [instances.closures EXCEPT ![ClosureOf(i)] =
                        MergedCallback(instruction, SlotsOf(i), node).slots],
        steps |-> instances.steps + 1,
        last |-> [op |-> "visit", id |-> i, before |-> Views]]
  /\ UNCHANGED <<settings, fileName, ruleInstructions, enhancedRuleInstructions,
                 importedTestingLibraryNode, importedCustomModuleNode,
                 visited, lastCall, ruleLog>>
  /\ UNCHANGED <<resolverVars, ascentVars, namingVars>>

NextInstances ==
  \/ \E i \in InstanceIds, name \in FileNames : CreateInstance(i, name)
  \/ \E i \in InstanceIds, instruction \in DetectionKeys :
       \E node \in NodesFor(instruction, instances.steps + 1) :
         VisitInstance(i, instruction, node)

SpecInstances == InitInstances /\ [][NextInstances]_vars

----------------------------------------------------------------------------
(* Nearest enclosing call: findClosestCallExpressionNode, findClosestCallNode *)

MaxDepth == 3

\* render() / wait() / screen.render() / a block statement
ChainNodes ==
  {[type |-> "CallExpression", callee |-> Identifier("render", 0)],
   [type |-> "CallExpression", callee |-> Identifier("wait", 0)],
   [type |-> "CallExpression",
    callee |-> [type |-> "MemberExpression", property |-> Identifier("render", 1)]],
   [type |-> "BlockStatement"]}

\* a parent chain: chain[1] is a node, chain[i + 1] the parent of chain[i],
\* and the last node has no parent
Chains == UNION {[1..n -> ChainNodes] : n \in 1..MaxDepth}

CallNames == {"render", "wait"}

isCallExpression(node) == node # Undefined /\ node.type = "CallExpression"

HasParent(chain, i) == i < Len(chain)

\* the position in the chain of the node returned, 0 for null
RECURSIVE findClosestCallExpressionNode(_, _)
findClosestCallExpressionNode(chain, i) ==
  IF isCallExpression(chain[i])
  THEN i
  ELSE IF ~HasParent(chain, i)
  THEN 0
  ELSE findClosestCallExpressionNode(chain, i + 1)

RECURSIVE findClosestCallNode(_, _, _)
findClosestCallNode(chain, i, name) ==
  IF ~HasParent(chain, i)
  THEN 0
  ELSE IF /\ isCallExpression(chain[i])
          /\ isIdentifier(chain[i].callee)
          /\ chain[i].callee.name = name
  THEN i
  ELSE findClosestCallNode(chain, i + 1, name)

InitAscent ==
  /\ settings = [module |-> Undefined, filenamePattern |-> Undefined]
  /\ fileName = ""
  /\ ruleInstructions = {}
  /\ enhancedRuleInstructions = allKeys(ruleInstructions)
  /\ importedTestingLibraryNode = Null
  /\ importedCustomModuleNode = Null
  /\ visited = 0
  /\ lastCall = NoCall
  /\ ruleLog = <<>>
  /\ found = NotCalled
  /\ instances = NoInstances
  /\ naming = NoRule
  /\ \E chain \in Chains :
       ascent = [chain |-> chain, closest |-> <<>>]

FindClosestCallExpressionNode(start) ==
  /\ start \in DOMAIN ascent.chain
  /\ ascent' = [ascent EXCEPT !.closest =
                  [fn |-> "findClosestCallExpressionNode", start |-> start,
                   name |-> "",
                   result |-> findClosestCallExpressionNode(ascent.chain, start)]]
  /\ UNCHANGED <<settings, fileName, ruleInstructions, enhancedRuleInstructions,
                 importedTestingLibraryNode, importedCustomModuleNode,
                 visited, lastCall, ruleLog>>
  /\ UNCHANGED <<resolverVars, instanceVars, namingVars>>

FindClosestCallNode(start, name) ==
  /\ start \in DOMAIN ascent.chain
  /\ ascent' = [ascent EXCEPT !.closest =
                  [fn |-> "findClosestCallNode", start |-> start, name |-> name,
                   result |-> findClosestCallNode(ascent.chain, start, name)]]
  /\ UNCHANGED <<settings, fileName, ruleInstructions, enhancedRuleInstructions,
                 importedTestingLibraryNode, importedCustomModuleNode,
                 visited, lastCall, ruleLog>>
  /\ UNCHANGED <<resolverVars, instanceVars, namingVars>>

NextAscent ==
  \/ \E start \in 1..MaxDepth : FindClosestCallExpressionNode(start)
  \/ \E start \in 1..MaxDepth, name \in CallNames : FindClosestCallNode(start, name)

SpecAscent == InitAscent /\ [][NextAscent]_vars

----------------------------------------------------------------------------
(* The rule render-result-naming-convention *)

MaxRuleVisits == 3

ALLOWED_VAR_NAMES == {"view", "utils"}

\* the modules hasTestingLibraryImportModule accepts
LibraryModules == {"@testing-library/react", "@testing-library/dom"}

hasTestingLibraryImportModule(node) == node.source.value \in LibraryModules

isMemberExpression(node) == node # Undefined /\ node.type = "MemberExpression"
isObjectPattern(node) == node # Undefined /\ node.type = "ObjectPattern"

CallOf(callee) == [type |-> "CallExpression", callee |-> callee]

MemberExpression(objectName, propertyName) ==
  [type |-> "MemberExpression",
   object |-> Identifier(objectName, 0), property |-> Identifier(propertyName, 1)]

\* 5 / render() / renderUI() / other() / customRender() / rtl.render() /
\* other.render() / rtl.other()
Initializers ==
  {[type |-> "Literal", valueType |-> "number", value |-> "5"],
   CallOf(Identifier("render", 0)),
   CallOf(Identifier("renderUI", 0)),
   CallOf(Identifier("other", 0)),
   CallOf(Identifier("customRender", 0)),
   CallOf(MemberExpression("rtl", "render")),
   CallOf(MemberExpression("other", "render")),
   CallOf(MemberExpression("rtl", "other"))}

\* const foo = .. / const view = .. / const { container } = ..
DeclaratorIds ==
  {Identifier("foo", 0), Identifier("view", 0),
   ObjectPattern(<<Property("container", "container")>>)}

Declarators ==
  {[type |-> "VariableDeclarator", id |-> id, init |-> init] :
     id \in DeclaratorIds, init \in Initializers}

\* import { render } / import { render as renderUI } / import { screen } /
\* import * as rtl, from a Testing Library module or from another one
RuleImports ==
  {[type |-> "ImportDeclaration", source |-> [value |-> src], specifiers |-> l] :
     src \in {"@testing-library/react", "lodash"},
     l \in {<<ImportSpecifier("render", "render")>>,
            <<ImportSpecifier("render", "renderUI")>>,
            <<ImportSpecifier("screen", "screen")>>,
            <<ImportNamespaceSpecifier("rtl")>>}}

RenderFunctionsOptions == {{}, {"customRender"}}

\* isRenderFunction(callNode, renderFunctions); an undefined name matches nothing
isRenderFunction(callNode, renderFunctions) ==
  \E name \in renderFunctions :
    \/ isIdentifier(callNode.callee) /\ name = Some(callNode.callee.name)
    \/ /\ isMemberExpression(callNode.callee)
       /\ isIdentifier(callNode.callee.property)
       /\ name = Some(callNode.callee.property.name)

isRenderVariableDeclarator(node, renderFunctions) ==
  isCallExpression(node.init) /\ isRenderFunction(node.init, renderFunctions)

\* the ImportDeclaration listener: the new value of renderAlias
ImportDeclarationListener(rule, node) ==
  IF ~hasTestingLibraryImportModule(node)
  THEN rule.renderAlias
  ELSE LET IsRender(n) == isImportSpecifier(n) /\ n.imported.name = "render"
           renderImport == Find(node.specifiers, {i \in DOMAIN node.specifiers : IsRender(node.specifiers[i])})
       IN  IF renderImport = Undefined
           THEN rule.renderAlias
           ELSE Some(renderImport.local.name)

\* the 'ImportDeclaration ImportNamespaceSpecifier' listener: the new value
\* of wildcardImportName (parent is the declaration of the specifier)
ImportNamespaceSpecifierListener(rule, node, parent) ==
  IF ~hasTestingLibraryImportModule(parent)
  THEN rule.wildcardImportName
  ELSE Some(node.local.name)

\* the VariableDeclarator listener: TRUE when it calls context.report
VariableDeclaratorListener(rule, node) ==
  LET names == {Some(f) : f \in rule.renderFunctions} \cup {rule.renderAlias}
      isValidRenderDeclarator == isRenderVariableDeclarator(node, names)
      isValidWildcardImport == Truthy(rule.wildcardImportName)
      renderFunctionName ==
        IF isCallExpression(node.init) /\ isIdentifier(node.init.callee)
        THEN Some(node.init.callee.name) ELSE Undefined
      renderFunctionObjectName ==
        IF /\ isCallExpression(node.init)
           /\ isMemberExpression(node.init.callee)
           /\ isIdentifier(node.init.callee.property)
           /\ isIdentifier(node.init.callee.object)
           /\ node.init.callee.property.name = "render"
        THEN Some(node.init.callee.object.name) ELSE Undefined
      isRenderAlias == Truthy(rule.renderAlias)
      isCustomRender ==
        renderFunctionName # Undefined /\ renderFunctionName[1] \in rule.renderFunctions
      isWildCardRender ==
        Truthy(renderFunctionObjectName)
          /\ renderFunctionObjectName = rule.wildcardImportName
      renderResultName ==
        IF isIdentifier(node.id) THEN Some(node.id.name) ELSE Undefined
  IN  IF isObjectPattern(node.id) THEN FALSE
      ELSE IF ~isValidRenderDeclarator /\ ~isValidWildcardImport THEN FALSE
      ELSE IF ~isRenderAlias /\ ~isCustomRender /\ ~isWildCardRender THEN FALSE
      ELSE IF renderResultName # Undefined /\ renderResultName[1] \in ALLOWED_VAR_NAMES
      THEN FALSE
      ELSE TRUE

InitNaming ==
  /\ settings = [module |-> Undefined, filenamePattern |-> Undefined]
  /\ fileName = ""
  /\ ruleInstructions = {}
  /\ enhancedRuleInstructions = allKeys(ruleInstructions)
  /\ importedTestingLibraryNode = Null
  /\ importedCustomModuleNode = Null
  /\ visited = 0
  /\ lastCall = NoCall
  /\ ruleLog = <<>>
  /\ found = NotCalled
  /\ ascent = NoAscent
  /\ instances = NoInstances
  /\ \E options \in RenderFunctionsOptions :
       naming = [renderFunctions |-> options,
                 renderAlias |-> Undefined,
                 wildcardImportName |-> Undefined,
                 pending |-> Undefined,
                 steps |-> 0,
                 last |-> [node |-> Null, reported |-> FALSE]]

NamingUnchanged ==
  /\ UNCHANGED <<settings, fileName, ruleInstructions, enhancedRuleInstructions,
                 importedTestingLibraryNode, importedCustomModuleNode,
                 visited, lastCall, ruleLog>>
  /\ UNCHANGED <<resolverVars, ascentVars, instanceVars>>

\* the traversal enters an import declaration; its namespace specifier, if
\* it has one, is the node visited next
NamingImportDeclaration(node) ==
  /\ naming.steps < MaxRuleVisits
  /\ naming.pending = Undefined
  /\ naming' = [naming EXCEPT
                  !.renderAlias = ImportDeclarationListener(naming, node),
                  !.pending = IF Find(node.specifiers, {i \in DOMAIN node.specifiers : isImportNamespaceSpecifier(node.specifiers[i])}) # Undefined
                              THEN Some(node) ELSE Undefined,
                  !.steps = @ + 1,
                  !.last = [node |-> node, reported |-> FALSE]]
  /\ NamingUnchanged

NamingImportNamespaceSpecifier ==
  /\ naming.pending # Undefined
  /\ LET parent == naming.pending[1]
         node == Find(parent.specifiers, {i \in DOMAIN parent.specifiers : isImportNamespaceSpecifier(parent.specifiers[i])})
     IN  naming' = [naming EXCEPT
                      !.wildcardImportName =
                         ImportNamespaceSpecifierListener(naming, node, parent),
                      !.pending = Undefined,
                      !.last = [node |-> node, reported |-> FALSE]]
  /\ NamingUnchanged

NamingVariableDeclarator(node) ==
  /\ naming.steps < MaxRuleVisits
  /\ naming.pending = Undefined
  /\ naming' = [naming EXCEPT
                  !.steps = @ + 1,
                  !.last = [node |-> node,
                            reported |-> VariableDeclaratorListener(naming, node)]]
  /\ NamingUnchanged

NextNaming ==
  \/ \E node \in RuleImports : NamingImportDeclaration(node)
  \/ NamingImportNamespaceSpecifier
  \/ \E node \in Declarators : NamingVariableDeclarator(node)

SpecNaming == InitNaming /\ [][NextNaming]_vars

----------------------------------------------------------------------------
(* Vocabulary of the properties *)

Called == lastCall # NoCall

\* the node a detection callback may record: the declaration itself, or the
\* call expression that is the parent of the visited require identifier
Recordable(call) ==
  IF call.instruction = "ImportDeclaration" THEN call.node ELSE call.node.parent

\* the module names a visited import/require node carries
SourcesOf(call) ==
  IF call.instruction = "ImportDeclaration"
  THEN {call.node.source.value}
  ELSE {call.node.parent.arguments[i].value : i \in
         {j \in DOMAIN call.node.parent.arguments :
            /\ call.node.parent.arguments[j].type = "Literal"
            /\ call.node.parent.arguments[j].valueType = "string"}}

IsDetectionVisit(call) == call.instruction \in {"ImportDeclaration", RequireSelector}

MatchesTargetLib(call) ==
  /\ IsDetectionVisit(call)
  /\ \E src \in SourcesOf(call) : Includes(src, "testing-library")

MatchesCustomModule(call, M) ==
  /\ IsDetectionVisit(call)
  /\ \E src \in SourcesOf(call) :
       /\ Len(src) >= Len(M)
       /\ SubSeq(src, Len(src) - Len(M) + 1, Len(src)) = M

Configured == settings.module # Undefined /\ settings.module # Some("")

----------------------------------------------------------------------------
(* C1 *)

\* C1: write-once slots.  Once importedTestingLibraryNode or
\* importedCustomModuleNode holds a node, no later visit changes that slot to
\* another node or back to empty, even when the later node matches too.
C1_WriteOnce ==
  [][ /\ (importedTestingLibraryNode # Null
            => importedTestingLibraryNode' = importedTestingLibraryNode)
      /\ (importedCustomModuleNode # Null
            => importedCustomModuleNode' = importedCustomModuleNode) ]_vars

\* a later matching node was visited while the slot was already recorded
C1_Witness ==
  /\ Called
  /\ settings.module = Some("my-utils")
  /\ lastCall.before.lib # Null
  /\ MatchesTargetLib(lastCall)
  /\ Recordable(lastCall) # importedTestingLibraryNode
  /\ lastCall.before.custom # Null
  /\ MatchesCustomModule(lastCall, "my-utils")
  /\ Recordable(lastCall) # importedCustomModuleNode

----------------------------------------------------------------------------
(* C2 *)

----------------------------------------------------------------------------
(* C3 *)

----------------------------------------------------------------------------
(* C4 *)

\* C4: when 'testing-library/module' is absent, the customModule slot is
\* empty after every sequence of import-declaration and require-call visits.
C4_CustomSlotEmptyWithoutSetting ==
  settings.module = Undefined => importedCustomModuleNode = Null

----------------------------------------------------------------------------
(* C5 *)

Recorded == importedTestingLibraryNode # Null \/ importedCustomModuleNode # Null

\* C5: when no custom module is configured, getIsTestingLibraryImported()
\* returns true in every state of the traversal: before any visit and after
\* any sequence of visits, whether or not an import was recorded.
C5_ImportedWithoutCustomModule ==
  ~Configured => getIsTestingLibraryImported(Slots)

\* an import was visited, nothing is recorded, and the answer is still true
C5_Witness ==
  /\ ~Configured
  /\ Called
  /\ lastCall.instruction = "ImportDeclaration"
  /\ ~Recorded
  /\ getIsTestingLibraryImported(Slots)

----------------------------------------------------------------------------
(* C6 *)

\* C6: when a custom module is configured, getIsTestingLibraryImported()
\* returns true exactly when at least one of the two slots is recorded.
C6_ImportedIffRecorded ==
  Configured => (getIsTestingLibraryImported(Slots) <=> Recorded)

\* a targetLib match alone makes it true
C6_Witness ==
  /\ Configured
  /\ importedTestingLibraryNode # Null
  /\ importedCustomModuleNode = Null
  /\ getIsTestingLibraryImported(Slots)

----------------------------------------------------------------------------
(* C7 *)

RuleRuns(call) == Cardinality({i \in DOMAIN call.events : call.events[i] = "rule"})

\* the slots a detection callback leaves, from the slots before the visit
AfterDetection(call) ==
  IF IsDetectionVisit(call)
  THEN [lib |-> IF call.before.lib = Null /\ MatchesTargetLib(call)
                THEN Recordable(call) ELSE call.before.lib,
        custom |-> IF call.before.custom = Null
                      /\ MatchesCustomModule(call, JsToString(settings.module))
                   THEN Recordable(call) ELSE call.before.custom]
  ELSE call.before

\* C7: merged-callback sequencing.  In every call of a merged callback the
\* detection callback of the key, if there is one, runs first, before the
\* gate is read and before the rule callback, and it runs whether the gate is
\* open or closed; a slot it records is seen by the gate read in that call.
C7_DetectionFirst ==
  Called =>
    /\ (IsDetectionVisit(lastCall)
          => /\ Len(lastCall.events) >= 2
             /\ lastCall.events[1] = "detection"
             /\ lastCall.events[2] = "canReportErrors")
    /\ (~IsDetectionVisit(lastCall) => lastCall.events[1] = "canReportErrors")
    /\ \A i \in DOMAIN lastCall.events :
         lastCall.events[i] = "rule" => i = Len(lastCall.events) /\ i > 1
    /\ Slots = AfterDetection(lastCall)
    /\ (Configured /\ getIsValidFilename /\ Slots # lastCall.before
          => /\ lastCall.gate
             /\ (lastCall.instruction \in ruleInstructions => RuleRuns(lastCall) = 1))

\* a key of both tables: the slot recorded by this call opened the gate for
\* the rule callback of the same call
C7_Witness ==
  /\ Called
  /\ Configured
  /\ lastCall.instruction \in ruleInstructions
  /\ lastCall.before = [lib |-> Null, custom |-> Null]
  /\ Recorded
  /\ lastCall.events = <<"detection", "canReportErrors", "rule">>

----------------------------------------------------------------------------
(* C8 *)

GateOpen == (Configured => Recorded) /\ getIsValidFilename

\* C8: rule gating.  In every call of a merged callback for key k the rule's
\* callback for k runs once if canReportErrors() is true at that moment and
\* the rule table has a callback for k, and the call returns its result;
\* otherwise no rule callback runs and the call returns undefined.
C8_RuleGating ==
  Called =>
    /\ RuleRuns(lastCall) =
         (IF GateOpen /\ lastCall.instruction \in ruleInstructions THEN 1 ELSE 0)
    /\ (RuleRuns(lastCall) = 1
          => /\ lastCall.returned =
                  Some([rule |-> lastCall.instruction, node |-> lastCall.node])
             /\ ruleLog # <<>>
             /\ ruleLog[Len(ruleLog)] = visited)
    /\ (RuleRuns(lastCall) = 0
          => /\ lastCall.returned = Undefined
             /\ \A i \in DOMAIN ruleLog : ruleLog[i] # visited)

\* the rule has a callback for every key: one call was suppressed by the
\* gate and a later one ran the rule callback
C8_Witness ==
  /\ Called
  /\ ruleInstructions = RuleKeys
  /\ RuleRuns(lastCall) = 1
  /\ lastCall.returned # Undefined
  /\ Len(ruleLog) < visited

----------------------------------------------------------------------------
(* C9 *)

\* position of the first visit that recorded a slot (0: none yet)
FirstMatch ==
  IF ~Recorded THEN 0
  ELSE IF importedTestingLibraryNode = Null THEN importedCustomModuleNode.pos
  ELSE IF importedCustomModuleNode = Null THEN importedTestingLibraryNode.pos
  ELSE IF importedCustomModuleNode.pos < importedTestingLibraryNode.pos
       THEN importedCustomModuleNode.pos
       ELSE importedTestingLibraryNode.pos

\* C9: the gate is getIsTestingLibraryImported() AND getIsValidFilename(),
\* read from the current state at every call.  With a custom module configured,
\* a matching filename and a rule callback for every key, the rule callback is
\* suppressed for the nodes visited before the first matching import/require
\* and runs for every node from that one on.
C9_GateRecomputed ==
  /\ (Called => lastCall.gate = GateOpen)
  /\ canReportErrors(Slots) = GateOpen
  /\ (Configured /\ getIsValidFilename /\ ruleInstructions = RuleKeys
        => \A p \in 1..visited :
             (\E i \in DOMAIN ruleLog : ruleLog[i] = p)
               <=> (FirstMatch # 0 /\ FirstMatch <= p))

\* suppressed at the first node, the match at the second, running at the third
C9_Witness ==
  /\ Configured
  /\ getIsValidFilename
  /\ ruleInstructions = RuleKeys
  /\ visited = 3
  /\ FirstMatch = 2
  /\ ruleLog = <<2, 3>>
  /\ lastCall.instruction = "CallExpression"

----------------------------------------------------------------------------
(* C10 *)

\* C10: the keys of the listener table returned by the enhanced create are
\* exactly 'ImportDeclaration', the require selector and the keys of the
\* rule's table; each of them can be called, and no other key can.
C10_KeysAreUnion ==
  /\ enhancedRuleInstructions =
       {"ImportDeclaration", RequireSelector} \cup ruleInstructions
  /\ (Called => lastCall.instruction \in
                  {"ImportDeclaration", RequireSelector} \cup ruleInstructions)

\* a rule table that shares a key with the detection table and adds one
C10_Witness ==
  /\ ruleInstructions = {"ImportDeclaration", "CallExpression"}
  /\ enhancedRuleInstructions =
       {"ImportDeclaration", RequireSelector, "CallExpression"}
  /\ Called
  /\ lastCall.instruction = RequireSelector

----------------------------------------------------------------------------
(* C11 *)

RuleSaw(p) == \E i \in DOMAIN ruleLog : ruleLog[i] = p

\* C11: end-to-end gating.  After an import whose source contains the marker
\* was visited, in a file whose name matches the pattern, the rule's callback
\* runs for a call visited later; it runs for no node when the filename does
\* not match, and for no node when a custom module is configured and no
\* visited import/require was recorded in either slot.
C11_EndToEnd ==
  /\ ((/\ Called
       /\ lastCall.instruction = "CallExpression"
       /\ "CallExpression" \in ruleInstructions
       /\ importedTestingLibraryNode # Null
       /\ getIsValidFilename)
        => (/\ RuleSaw(visited)
            /\ lastCall.returned # Undefined))
  /\ (~getIsValidFilename => ruleLog = <<>>)
  /\ (Configured /\ ~Recorded => ruleLog = <<>>)

\* custom module configured: the marker import came first, then the call the
\* rule reacts to, and the rule's callback ran for it
C11_Witness ==
  /\ Configured
  /\ Called
  /\ lastCall.instruction = "CallExpression"
  /\ importedTestingLibraryNode # Null
  /\ importedTestingLibraryNode.type = "ImportDeclaration"
  /\ importedCustomModuleNode = Null
  /\ getIsValidFilename
  /\ RuleSaw(visited)

----------------------------------------------------------------------------
(* C19 *)

\* C19: gate monotonicity.  Once canReportErrors() is true at some point of
\* a file's traversal, it is true at every later point of that traversal.
C19_GateMonotone ==
  [][GateOpen => GateOpen']_vars

\* the gate, opened by a recorded import, stayed open over a later node that
\* matches nothing
C19_Witness ==
  /\ Configured
  /\ Called
  /\ IsDetectionVisit(lastCall)
  /\ lastCall.before # [lib |-> Null, custom |-> Null]
  /\ ~MatchesTargetLib(lastCall)
  /\ ~MatchesCustomModule(lastCall, settings.module[1])
  /\ getIsValidFilename
  /\ lastCall.gate
  /\ GateOpen

----------------------------------------------------------------------------
(* Vocabulary of the specifier-resolution properties (SpecResolver) *)

Resolved == found.type = "called"

RangeOf(seq) == {seq[i] : i \in DOMAIN seq}

ThroughDeclaration ==
  Resolved /\ found.node # Null /\ found.node.type = "ImportDeclaration"

ThroughBoundRequire ==
  /\ Resolved
  /\ found.node # Null
  /\ found.node.type = "CallExpression"
  /\ found.node.parent.type = "VariableDeclarator"

\* the destructured properties whose key is the requested name
MatchingProperties ==
  {prop \in RangeOf(found.node.parent.id.properties) :
     prop.type = "Property" /\ prop.key.name = found.specifierName}

----------------------------------------------------------------------------
(* C12 *)

\* C12: findImportedUtilSpecifier(name) inspects the customModule slot if it
\* is recorded, otherwise the targetLib slot if it is recorded, otherwise it
\* returns null at once; with both slots recorded the result comes from the
\* custom module node only, whichever slot was recorded first.
C12_NodeSelection ==
  Resolved =>
    /\ (found.slots.custom # Null => found.node = found.slots.custom)
    /\ (found.slots.custom = Null /\ found.slots.lib # Null
          => found.node = found.slots.lib)
    /\ (found.slots.custom = Null /\ found.slots.lib = Null
          => found.node = Null /\ found.result = Null)
    /\ (found.slots.custom # Null /\ found.slots.custom.type = "ImportDeclaration"
          => found.result \in RangeOf(found.slots.custom.specifiers) \cup {Undefined})

\* targetLib was recorded first, customModule second, to another node; the
\* binding returned is a specifier of the custom module import
C12_Witness ==
  /\ Resolved
  /\ found.slots.lib # Null
  /\ found.slots.custom # Null
  /\ found.slots.lib.pos = 1
  /\ found.slots.custom.pos = 2
  /\ found.node = found.slots.custom
  /\ found.node.type = "ImportDeclaration"
  /\ found.result \in RangeOf(found.slots.custom.specifiers)

----------------------------------------------------------------------------
(* C13 *)

\* C13: static-declaration resolution.  Through an import declaration,
\* findImportedUtilSpecifier(name) returns the named specifier whose imported
\* name is name if there is one, otherwise a namespace specifier of the
\* declaration if there is one, otherwise undefined.
C13_DeclarationResolution ==
  ThroughDeclaration =>
    LET specifiers == RangeOf(found.node.specifiers)
        named == {n \in specifiers : n.type = "ImportSpecifier"
                                       /\ n.imported.name = found.specifierName}
        namespaces == {n \in specifiers : n.type = "ImportNamespaceSpecifier"}
    IN  IF named # {} THEN found.result \in named
        ELSE IF namespaces # {} THEN found.result \in namespaces
        ELSE found.result = Undefined

\* import { render as doRender }: 'render' resolves to the binding doRender
C13_Witness ==
  /\ ThroughDeclaration
  /\ found.specifierName = "render"
  /\ found.result # Undefined
  /\ found.result.type = "ImportSpecifier"
  /\ found.result.local.name = "doRender"

----------------------------------------------------------------------------
(* C14 *)

\* C14: dynamic-load resolution.  Through a require call bound by a variable
\* declarator, findImportedUtilSpecifier(name) returns the declarator's
\* identifier, for every name, when the binding target is a plain identifier,
\* and the key identifier (not the local alias) of the destructured property
\* whose key is name when the target is an object pattern with such a property.
C14_RequireResolution ==
  ThroughBoundRequire =>
    /\ (found.node.parent.id.type = "Identifier"
          => found.result = found.node.parent.id)
    /\ (found.node.parent.id.type = "ObjectPattern" /\ MatchingProperties # {}
          => /\ \E prop \in MatchingProperties :
                  found.result = prop.key /\ found.result # prop.value
             /\ found.result.name = found.specifierName)

\* const { render: r } = require(..): 'render' resolves to the key render
C14_Witness ==
  /\ ThroughBoundRequire
  /\ found.node.parent.id.type = "ObjectPattern"
  /\ found.specifierName = "render"
  /\ found.result = Identifier("render", 1)
  /\ \E prop \in MatchingProperties : prop.value.name = "r"

----------------------------------------------------------------------------
(* C15 *)

\* C15: through a require call bound to an object pattern with no property
\* whose key is the requested name (an empty pattern included),
\* findImportedUtilSpecifier(name) returns an absent result and raises no
\* error.
C15_AbsentWhenNoProperty ==
  (/\ ThroughBoundRequire
   /\ found.node.parent.id.type = "ObjectPattern"
   /\ MatchingProperties = {})
    => found.result \in {Undefined, Null}

----------------------------------------------------------------------------
(* C17 *)

\* C17: a slot that holds a require call expression holds one whose parent
\* is a VariableDeclarator; a matching require call that is not the
\* initializer of a variable binding is not recorded.
C17_RecordedRequireIsBound ==
  \A slot \in {importedTestingLibraryNode, importedCustomModuleNode} :
    (slot # Null /\ slot.type = "CallExpression")
      => slot.parent.type = "VariableDeclarator"

----------------------------------------------------------------------------
(* C16 *)

\* C16: per-file isolation.  Each call of the enhanced create starts with
\* its own pair of empty slots, and in any interleaving of the visits of two
\* files a step of one instance changes neither the slots, nor the gate, nor
\* the import node findImportedUtilSpecifier inspects, of the other instance.
C16_Isolation ==
  /\ (instances.last.op = "create" => SlotsOf(instances.last.id) = EmptySlots)
  /\ (instances.last.op \in {"create", "visit"}
        => \A j \in DOMAIN instances.last.before :
             j # instances.last.id => ViewOf(j) = instances.last.before[j])

\* both files have recorded an import of their own
C16_Witness ==
  /\ Created = {1, 2}
  /\ instances.last.op = "visit"
  /\ instances.last.id = 2
  /\ instances.last.before[2].slots = EmptySlots
  /\ instances.closures[1].lib # Null
  /\ instances.closures[2].lib # Null
  /\ instances.closures[1].lib # instances.closures[2].lib

----------------------------------------------------------------------------
(* C18 *)

\* the first position from start up to the root that satisfies the test, 0
\* when there is none
FirstOnChain(chain, start, Test(_)) ==
  LET hits == {i \in start..Len(chain) : Test(chain[i])}
  IN  IF hits = {} THEN 0 ELSE CHOOSE i \in hits : \A j \in hits : i <= j

----------------------------------------------------------------------------
(* C20 *)

\* the initializer is a call of the imported render (by its local alias), of
\* <namespace alias>.render, or of a function listed in renderFunctions
IsRenderCall(init) ==
  /\ init.type = "CallExpression"
  /\ \/ /\ init.callee.type = "Identifier"
        /\ \/ Some(init.callee.name) = naming.renderAlias
           \/ init.callee.name \in naming.renderFunctions
     \/ /\ init.callee.type = "MemberExpression"
        /\ init.callee.property.name = "render"
        /\ Some(init.callee.object.name) = naming.wildcardImportName

\* C20: the rule reports a variable declarator only when its initializer is
\* a call to a render function; after every sequence of import declarations
\* a declarator with another initializer (const foo = 5, const foo = other())
\* is not reported.
C20_ReportsOnlyRenderResults ==
  naming.last.reported => IsRenderCall(naming.last.node.init)

====
